---- MODULE Spec2Model ----
(***************************************************************************)
(* NailsCata backend (src/server.js): appointments (table turnos_nailscata)*)
(* and weekday schedules (table schedules) behind an express API.          *)
(*                                                                         *)
(* The shared state is the PostgreSQL store; every pool.query is one SQL   *)
(* statement executed atomically by the store (autocommit).  A handler     *)
(* with a single statement is one action (request, validation, statement,  *)
(* response).  GET /api/available-times issues two statements and is       *)
(* modelled with one action per statement.  sendMail is dispatched by the  *)
(* booking handler and completes later in its own callback.                *)
(* SpecRace models POST /api/appointments with one action per await, for   *)
(* several requests in flight at once; SpecBooking adds the INSERTs the    *)
(* store rejects and the fairness of the store and of the event loop.      *)
(* SpecRead adds the reading routes to the single-statement handlers, and  *)
(* SpecSnapshot records, for each GET /api/available-times in flight, what *)
(* the store offered for its date since the request arrived.               *)
(*                                                                         *)
(* Assumptions on what is not in the source: the columns hold text as      *)
(* given (no DATE/TIME reformatting), ids come from a sequence, and the    *)
(* host time zone is UTC, so that getDay() is the weekday of the date.     *)
(***************************************************************************)
EXTENDS Integers, Sequences, FiniteSets, TLC

\* Bounds of the model.
MaxId == 2
NumRacers == 3

\* Input domains.
Dates == {<<2025, 6, 10>>, <<2025, 6, 17>>}
Times == {"09:00", "10:00"}
Messages == {""}
DayNums == {2, 3}
SlotLists == {<<"09:00", "10:00">>, <<"10:00", "09:00">>, <<"10:00", "10:00">>}
Readers == {"g1"}
ReadDates == {<<2025, 6, 10>>}
Racers == 1..NumRacers
IdInputs == 1..MaxId

NoDate == <<>>
Null == "NULL"
Undefined == -1

\* Request bodies: every complete one, and each with one required field
\* left out or empty.
FullBodies ==
    [fecha : Dates, hora : Times, servicio : {"Esmaltado"}, nombre : {"Ana"},
     telefono : {"1155550000"}, message : Messages]

Blanked(b) ==
    {[b EXCEPT !.fecha = NoDate], [b EXCEPT !.hora = ""],
     [b EXCEPT !.servicio = ""], [b EXCEPT !.nombre = ""],
     [b EXCEPT !.telefono = ""]}

Bodies == FullBodies \cup Blanked(CHOOSE b \in FullBodies : TRUE)

\* Schedule bodies: any of the lists for Tuesday (the weekday of Dates), one
\* list for Wednesday, and one body per way of failing the validation.
FullSchedules ==
    [day_of_week_num : {2}, day_name : {"Martes"}, isArray : {TRUE},
     available_times : SlotLists]
    \cup {[day_of_week_num |-> 3, day_name |-> "Miercoles", isArray |-> TRUE,
           available_times |-> <<"09:00">>]}

BlankedSchedule(b) ==
    {[b EXCEPT !.day_of_week_num = Undefined], [b EXCEPT !.day_name = ""],
     [b EXCEPT !.isArray = FALSE]}

ScheduleBodies ==
    FullSchedules \cup BlankedSchedule(CHOOSE b \in FullSchedules : TRUE)

VARIABLES
    turnos,      \* table turnos_nailscata: set of rows
    schedules,   \* table schedules: set of rows
    nextId,      \* next value of the id sequence of turnos_nailscata
    outbox,      \* ids of the appointments whose sendMail has not called back yet
    res,         \* the last HTTP response sent
    avail,       \* GET /api/available-times requests in flight
    hist,        \* history: getAvailableTimes of a date before the last booking
    reqs         \* SpecRace: POST /api/appointments requests, one per racer

vars == <<turnos, schedules, nextId, outbox, res, avail, hist, reqs>>

\* HTTP status codes
Created == 201
Ok == 200
BadRequest == 400
NotFound == 404
Conflict == 409
ServerError == 500

----------------------------------------------------------------------------
\* Pure helpers

\* new Date('YYYY-MM-DD').getDay(): days since 1970-01-01 (a Thursday), mod 7
DaysFromCivil(date) ==
    LET y0 == date[1]
        m == date[2]
        d == date[3]
        y == IF m <= 2 THEN y0 - 1 ELSE y0
        era == y \div 400
        yoe == y - era * 400
        mp == IF m > 2 THEN m - 3 ELSE m + 9
        doy == (153 * mp + 2) \div 5 + d - 1
        doe == yoe * 365 + yoe \div 4 - yoe \div 100 + doy
    IN era * 146097 + doe - 719468

GetDay(date) == (DaysFromCivil(date) + 4) % 7

\* Mutant: the validation forgets the contact field.
MissingFieldsNoPhone(b) ==
    \/ b.fecha = NoDate
    \/ b.hora = ""
    \/ b.servicio = ""
    \/ b.nombre = ""

\* if (!fecha || !hora || !servicio || !nombre || !telefono)
MissingFields(b) ==
    \/ b.fecha = NoDate
    \/ b.hora = ""
    \/ b.servicio = ""
    \/ b.nombre = ""
    \/ b.telefono = ""

\* values = [fecha, hora, servicio, nombre, telefono, message || null]
NewRow(id, b) ==
    [id |-> id, fecha |-> b.fecha, hora |-> b.hora, servicio |-> b.servicio,
     nombre |-> b.nombre, telefono |-> b.telefono,
     message |-> IF b.message = "" THEN Null ELSE b.message]

\* Mutant: the table has no uniqueness constraint.
NoUniqueConstraint(rows, fecha, hora) == FALSE

\* The uniqueness constraint of turnos_nailscata on (fecha, hora), whose
\* violation the store reports with code 23505.
UniqueViolation(rows, fecha, hora) ==
    \E t \in rows : t.fecha = fecha /\ t.hora = hora

\* INSERT INTO turnos_nailscata ... RETURNING *
InsertTurno(rows, id, b) ==
    IF UniqueViolation(rows, b.fecha, b.hora)
    THEN [code |-> "23505", table |-> rows, rows |-> <<>>]
    ELSE [code |-> "", table |-> rows \cup {NewRow(id, b)},
          rows |-> <<NewRow(id, b)>>]

\* Mutant: the catch has no branch for 23505.
CatchStatusGeneric(code) == ServerError

\* Mutant: the catch answers a uniqueness violation like a validation error.
CatchStatusBadRequest(code) == IF code = "23505" THEN BadRequest ELSE ServerError

\* catch (err): 23505 -> 409, anything else -> 500
CatchStatus(code) == IF code = "23505" THEN Conflict ELSE ServerError

\* Mutant: the statement returns the row without deleting it (a SELECT).
DeleteTurnoKeepsRow(rows, id) ==
    LET hit == {t \in rows : t.id = id}
    IN [table |-> rows,
        rows |-> IF hit = {} THEN <<>> ELSE <<CHOOSE t \in hit : TRUE>>,
        rowCount |-> Cardinality(hit)]

\* Mutant: the DELETE has no WHERE clause.
DeleteTurnoAll(rows, id) ==
    LET hit == {t \in rows : t.id = id}
    IN [table |-> IF hit = {} THEN rows ELSE {},
        rows |-> IF hit = {} THEN <<>> ELSE <<CHOOSE t \in hit : TRUE>>,
        rowCount |-> Cardinality(hit)]

\* DELETE FROM turnos_nailscata WHERE id = $1 RETURNING *
DeleteTurno(rows, id) ==
    LET hit == {t \in rows : t.id = id}
    IN [table |-> rows \ hit,
        rows |-> IF hit = {} THEN <<>> ELSE <<CHOOSE t \in hit : TRUE>>,
        rowCount |-> Cardinality(hit)]

\* Mutant: the schedules query has no WHERE clause.
SelectScheduleAnyDay(rows, dayOfWeek) == rows

\* SELECT available_times FROM schedules WHERE day_of_week_num = $1
SelectSchedule(rows, dayOfWeek) ==
    {s \in rows : s.day_of_week_num = dayOfWeek}

\* Mutant: a weekday without a schedule gets a default list.
ScheduleTimesDefault(rows, dayOfWeek) ==
    LET hit == SelectSchedule(rows, dayOfWeek)
    IN IF hit # {} THEN (CHOOSE s \in hit : TRUE).available_times
       ELSE <<"09:00", "10:00">>

\* let availableTimes = []; if (rows.length > 0) availableTimes = rows[0].available_times
ScheduleTimes(rows, dayOfWeek) ==
    LET hit == SelectSchedule(rows, dayOfWeek)
    IN IF hit # {} THEN (CHOOSE s \in hit : TRUE).available_times ELSE <<>>

\* Mutant: the booked-times query selects by weekday.
BookedTimesByWeekday(rows, date) ==
    {t.hora : t \in {x \in rows : GetDay(x.fecha) = GetDay(date)}}

\* Mutant: the booked-times query has no WHERE clause.
BookedTimesAnyDate(rows, date) == {t.hora : t \in rows}

\* SELECT hora FROM turnos_nailscata WHERE fecha = $1; rows.map(row => row.hora)
BookedTimes(rows, date) == {t.hora : t \in {x \in rows : x.fecha = date}}

\* Mutant: the booked times are not filtered out.
FilteredTimesKeepAll(availableTimes, bookedTimes) == availableTimes

\* availableTimes.filter(time => !bookedTimes.includes(time))
FilteredTimes(availableTimes, bookedTimes) ==
    LET free(time) == time \notin bookedTimes
    IN SelectSeq(availableTimes, free)

\* What GET /api/available-times answers when both its statements see the
\* given tables.
AvailableTimes(trn, sch, date) ==
    FilteredTimes(ScheduleTimes(sch, GetDay(date)), BookedTimes(trn, date))

\* Mutant: ON CONFLICT appends the new list to the stored one.
UpsertScheduleMerge(rows, b) ==
    LET old == {s \in rows : s.day_of_week_num = b.day_of_week_num}
        row == [day_of_week_num |-> b.day_of_week_num, day_name |-> b.day_name,
                available_times |->
                    IF old = {} THEN b.available_times
                    ELSE (CHOOSE s \in old : TRUE).available_times
                             \o b.available_times]
    IN [table |-> (rows \ old) \cup {row}, rows |-> <<row>>]

\* INSERT INTO schedules ... ON CONFLICT (day_of_week_num) DO UPDATE ... RETURNING *
UpsertSchedule(rows, b) ==
    LET row == [day_of_week_num |-> b.day_of_week_num, day_name |-> b.day_name,
                available_times |-> b.available_times]
    IN [table |-> {s \in rows : s.day_of_week_num # b.day_of_week_num} \cup {row},
        rows |-> <<row>>]

\* DELETE FROM schedules WHERE day_of_week_num = $1 RETURNING *
DeleteScheduleRow(rows, dayOfWeekNum) ==
    LET hit == SelectSchedule(rows, dayOfWeekNum)
    IN [table |-> rows \ hit,
        rows |-> IF hit = {} THEN <<>> ELSE <<CHOOSE s \in hit : TRUE>>,
        rowCount |-> Cardinality(hit)]

\* The sort keys of ORDER BY fecha, hora: 'YYYY-MM-DD' and 'HH:MM' are
\* compared left to right, which is the order of their digits.
FechaKey(fecha) == fecha[1] * 10000 + fecha[2] * 100 + fecha[3]

HoraKey(hora) ==
    CASE hora = "09:00" -> 900
      [] hora = "10:00" -> 1000

\* Mutant: the statement is ORDER BY hora.
PrecedesByHora(t, u) == HoraKey(t.hora) < HoraKey(u.hora)

\* t sorts before u under ORDER BY fecha, hora
Precedes(t, u) ==
    \/ FechaKey(t.fecha) < FechaKey(u.fecha)
    \/ FechaKey(t.fecha) = FechaKey(u.fecha) /\ HoraKey(t.hora) < HoraKey(u.hora)

\* SELECT id, fecha, hora, servicio, nombre, telefono, message
\* FROM turnos_nailscata ORDER BY fecha, hora
RECURSIVE SelectTurnosOrdered(_)
SelectTurnosOrdered(rows) ==
    IF rows = {} THEN <<>>
    ELSE LET first == CHOOSE t \in rows : \A u \in rows : ~Precedes(u, t)
         IN <<first>> \o SelectTurnosOrdered(rows \ {first})

\* SELECT * FROM schedules WHERE day_of_week_num = $1: 404 without a row,
\* otherwise 200 with rows[0]
GetScheduleByDay(rows, dayOfWeekNum) ==
    LET hit == {s \in rows : s.day_of_week_num = dayOfWeekNum}
    IN IF hit = {}
       THEN [route |-> "GET /api/schedules/:dayOfWeekNum", status |-> NotFound,
             body |-> [error |-> "Horario para el dia no encontrado."]]
       ELSE [route |-> "GET /api/schedules/:dayOfWeekNum", status |-> Ok,
             body |-> [schedule |-> CHOOSE s \in hit : TRUE]]

Response(route, status, body) == [route |-> route, status |-> status, body |-> body]

ErrorBody(text) == [error |-> text]

\* A request in flight on another connection saw an operation run beside
\* it, which left the tables trn and sch.
Touched(av, trn, sch) ==
    [r \in Readers |->
        IF av[r].pc # "idle"
        THEN [av[r] EXCEPT !.concurrent = TRUE,
                           !.seen = IF @ = {} THEN {}
                                    ELSE @ \cup {AvailableTimes(trn, sch, av[r].date)}]
        ELSE av[r]]

NoHist == [valid |-> FALSE, id |-> 0, date |-> NoDate, times |-> <<>>]

\* seen is history, kept for the requests of SpecSnapshot: what
\* getAvailableTimes of the date is in each state of the store since the
\* request arrived
IdleReader == [pc |-> "idle", date |-> NoDate, availableTimes |-> <<>>,
               concurrent |-> FALSE, seen |-> {}]

\* mails counts the sendMail calls of the request, responses the responses
\* it has sent
IdleReq == [pc |-> "idle", body |-> <<>>, code |-> "", rows |-> <<>>,
            status |-> 0, mails |-> 0, responses |-> 0]

\* SpecRace: the bodies of the racing requests, all for one date
RaceBodies == {b \in Bodies : b.fecha = <<2025, 6, 10>>}

----------------------------------------------------------------------------
Init ==
    /\ turnos = {}
    /\ schedules = {}
    /\ nextId = 1
    /\ outbox = {}
    /\ res = Response("", 0, <<>>)
    /\ avail = [r \in Readers |-> IdleReader]
    /\ hist = NoHist
    /\ reqs = [r \in Racers |-> IdleReq]

\* catch (err): the error text sent with 409 and with 500
CatchBody(code) ==
    IF code = "23505" THEN ErrorBody("Ya existe un turno agendado para esta fecha y hora.")
    ELSE ErrorBody("Error interno del servidor")

\* POST /api/appointments, the store answering the INSERT
PostAppointment(b) ==
    LET result == InsertTurno(turnos, nextId, b)
    IN /\ (~MissingFields(b) /\ result.code = "") => nextId <= MaxId
       /\ IF MissingFields(b)
          THEN /\ res' = Response("POST /api/appointments", BadRequest,
                                  ErrorBody("Faltan campos obligatorios para agendar el turno."))
               /\ UNCHANGED <<turnos, nextId, outbox, avail, hist>>
          ELSE IF result.code = ""
          THEN /\ turnos' = result.table
               /\ nextId' = nextId + 1
               /\ outbox' = outbox \cup {result.rows[1].id}
               /\ res' = Response("POST /api/appointments", Created,
                                  [appointment |-> result.rows[1]])
               /\ hist' = [valid |-> TRUE, id |-> result.rows[1].id,
                           date |-> b.fecha,
                           times |-> AvailableTimes(turnos, schedules, b.fecha)]
               /\ avail' = Touched(avail, result.table, schedules)
          ELSE /\ turnos' = result.table
               /\ res' = Response("POST /api/appointments",
                                  CatchStatus(result.code), CatchBody(result.code))
               /\ hist' = NoHist
               /\ avail' = Touched(avail, result.table, schedules)
               /\ UNCHANGED <<nextId, outbox>>
       /\ UNCHANGED <<schedules, reqs>>

\* Mutant: a failed notification deletes the appointment it was about.
MailCallbackUndo(a, error) ==
    /\ a \in outbox
    /\ outbox' = outbox \ {a}
    /\ turnos' = IF error THEN {t \in turnos : t.id # a} ELSE turnos
    /\ UNCHANGED <<schedules, nextId, res, avail, hist, reqs>>

\* transporter.sendMail's callback: the result is logged, nothing else
MailCallback(a, error) ==
    /\ a \in outbox
    /\ outbox' = outbox \ {a}
    /\ UNCHANGED <<turnos, schedules, nextId, res, avail, hist, reqs>>

\* DELETE /api/appointments/:id, the store answering the DELETE
DeleteAppointment(id) ==
    LET result == DeleteTurno(turnos, id)
    IN /\ turnos' = result.table
       /\ res' = IF result.rowCount = 0
                 THEN Response("DELETE /api/appointments/:id", NotFound,
                               ErrorBody("Turno no encontrado."))
                 ELSE Response("DELETE /api/appointments/:id", Ok,
                               [deletedAppointment |-> result.rows[1]])
       /\ avail' = Touched(avail, result.table, schedules)
       /\ hist' = NoHist
       /\ UNCHANGED <<schedules, nextId, outbox, reqs>>

\* if (day_of_week_num === undefined || !day_name || !Array.isArray(available_times))
BadSchedule(b) ==
    \/ b.day_of_week_num = Undefined
    \/ b.day_name = ""
    \/ ~b.isArray

\* POST /api/schedules, the store answering the upsert
PostSchedule(b) ==
    /\ IF BadSchedule(b)
       THEN /\ res' = Response("POST /api/schedules", BadRequest,
                               ErrorBody("Faltan campos obligatorios"))
            /\ UNCHANGED <<schedules, avail, hist>>
       ELSE LET result == UpsertSchedule(schedules, b)
            IN /\ schedules' = result.table
               /\ res' = Response("POST /api/schedules", Ok,
                                  [schedule |-> result.rows[1]])
               /\ avail' = Touched(avail, turnos, result.table)
               /\ hist' = NoHist
    /\ UNCHANGED <<turnos, nextId, outbox, reqs>>

\* Mutant: deleting a schedule deletes the appointments of its weekday.
DeleteScheduleCascade(dayOfWeekNum) ==
    LET result == DeleteScheduleRow(schedules, dayOfWeekNum)
    IN /\ schedules' = result.table
       /\ res' = IF result.rowCount = 0
                 THEN Response("DELETE /api/schedules/:dayOfWeekNum", NotFound,
                               ErrorBody("Horario para el dia no encontrado."))
                 ELSE Response("DELETE /api/schedules/:dayOfWeekNum", Ok,
                               [deletedSchedule |-> result.rows[1]])
       /\ turnos' = IF result.rowCount = 0 THEN turnos
                    ELSE {t \in turnos : GetDay(t.fecha) # dayOfWeekNum}
       /\ avail' = Touched(avail, turnos, result.table)
       /\ hist' = NoHist
       /\ UNCHANGED <<nextId, outbox, reqs>>

\* DELETE /api/schedules/:dayOfWeekNum, the store answering the DELETE
DeleteSchedule(dayOfWeekNum) ==
    LET result == DeleteScheduleRow(schedules, dayOfWeekNum)
    IN /\ schedules' = result.table
       /\ res' = IF result.rowCount = 0
                 THEN Response("DELETE /api/schedules/:dayOfWeekNum", NotFound,
                               ErrorBody("Horario para el dia no encontrado."))
                 ELSE Response("DELETE /api/schedules/:dayOfWeekNum", Ok,
                               [deletedSchedule |-> result.rows[1]])
       /\ avail' = Touched(avail, turnos, result.table)
       /\ hist' = NoHist
       /\ UNCHANGED <<turnos, nextId, outbox, reqs>>

\* GET /api/available-times: the request arrives; without a date it ends
\* with 400, otherwise the handler awaits the schedules query
AvailArrive(r, date, observed) ==
    /\ avail[r].pc = "idle"
    /\ IF date = NoDate
       THEN /\ res' = Response("GET /api/available-times", BadRequest,
                               ErrorBody("Falta el parametro de fecha."))
            /\ UNCHANGED avail
       ELSE /\ avail' = [avail EXCEPT ![r] =
                            [pc |-> "schedule", date |-> date,
                             availableTimes |-> <<>>, concurrent |-> FALSE,
                             seen |-> IF observed
                                      THEN {AvailableTimes(turnos, schedules, date)}
                                      ELSE {}]]
            /\ UNCHANGED res
    /\ UNCHANGED <<turnos, schedules, nextId, outbox, hist, reqs>>

AvailStart(r, date) == AvailArrive(r, date, FALSE)

\* the same arrival, the history of the request recorded
AvailStartObserved(r, date) == AvailArrive(r, date, TRUE)

\* the schedules query is answered; the handler awaits the turnos query
AvailSchedule(r) ==
    /\ avail[r].pc = "schedule"
    /\ avail' = [avail EXCEPT ![r].pc = "booked",
                              ![r].availableTimes =
                                  ScheduleTimes(schedules, GetDay(avail[r].date))]
    /\ UNCHANGED <<turnos, schedules, nextId, outbox, res, hist, reqs>>

\* the turnos query is answered; the handler filters and responds
AvailBooked(r) ==
    /\ avail[r].pc = "booked"
    /\ res' = Response("GET /api/available-times", Ok,
                       [availableTimes |->
                           FilteredTimes(avail[r].availableTimes,
                                         BookedTimes(turnos, avail[r].date))])
    /\ avail' = [avail EXCEPT ![r] = IdleReader]
    /\ UNCHANGED <<turnos, schedules, nextId, outbox, hist, reqs>>

\* GET /api/appointments, the store answering the SELECT
GetAppointments ==
    /\ res' = Response("GET /api/appointments", Ok,
                       [reservedSlots |-> SelectTurnosOrdered(turnos)])
    /\ UNCHANGED <<turnos, schedules, nextId, outbox, avail, hist, reqs>>

\* GET /api/schedules/:dayOfWeekNum, the store answering the SELECT
GetSchedule(dayOfWeekNum) ==
    /\ res' = GetScheduleByDay(schedules, dayOfWeekNum)
    /\ UNCHANGED <<turnos, schedules, nextId, outbox, avail, hist, reqs>>

SingleQueryRoutes ==
    {"POST /api/appointments", "DELETE /api/appointments/:id",
     "POST /api/schedules", "DELETE /api/schedules/:dayOfWeekNum"}

\* pool.query rejects with an error other than 23505 (the store is
\* unreachable, the statement times out): the handler's catch answers 500
QueryFails(route) ==
    /\ res' = Response(route, ServerError, CatchBody("08006"))
    /\ UNCHANGED <<turnos, schedules, nextId, outbox, avail, hist, reqs>>

\* either query of GET /api/available-times rejects
AvailFails(r) ==
    /\ avail[r].pc \in {"schedule", "booked"}
    /\ res' = Response("GET /api/available-times", ServerError, CatchBody("08006"))
    /\ avail' = [avail EXCEPT ![r] = IdleReader]
    /\ UNCHANGED <<turnos, schedules, nextId, outbox, hist, reqs>>

NextCore ==
    \/ \E b \in Bodies : PostAppointment(b)
    \/ \E a \in outbox, error \in BOOLEAN : MailCallback(a, error)
    \/ \E id \in IdInputs : DeleteAppointment(id)
    \/ \E b \in ScheduleBodies : PostSchedule(b)
    \/ \E d \in DayNums : DeleteSchedule(d)

\* The handlers that run one statement, the store answering it.
SpecCore == Init /\ [][NextCore]_vars

NextRead ==
    \/ NextCore
    \/ GetAppointments
    \/ \E d \in DayNums : GetSchedule(d)

\* The handlers that run one statement, the reading ones included.
SpecRead == Init /\ [][NextRead]_vars

Next ==
    \/ NextCore
    \/ \E r \in Readers, date \in ReadDates \cup {NoDate} : AvailStart(r, date)
    \/ \E r \in Readers : AvailSchedule(r)
    \/ \E r \in Readers : AvailBooked(r)

\* All handlers, the store answering every statement.
Spec == Init /\ [][Next]_vars

NextSnapshot ==
    \/ \E b \in Bodies : PostAppointment(b)
    \/ \E id \in IdInputs : DeleteAppointment(id)
    \/ \E b \in ScheduleBodies : PostSchedule(b)
    \/ \E d \in DayNums : DeleteSchedule(d)
    \/ \E r \in Readers, date \in ReadDates \cup {NoDate} :
           AvailStartObserved(r, date)
    \/ \E r \in Readers : AvailSchedule(r)
    \/ \E r \in Readers : AvailBooked(r)

\* GET /api/available-times beside the four writing handlers, the history
\* of each request recorded.
SpecSnapshot == Init /\ [][NextSnapshot]_vars

----------------------------------------------------------------------------
\* POST /api/appointments with one action per await (SpecRace)

\* the request arrives: 400 without a required field, otherwise the INSERT
\* is sent and the handler awaits it
\* Mutant: the 400 is sent without return, the handler goes on to the INSERT.
CreateReceiveNoReturn(r, b) ==
    /\ reqs[r].pc = "idle"
    /\ reqs' = [reqs EXCEPT ![r] =
                   IF MissingFields(b)
                   THEN [IdleReq EXCEPT !.pc = "insert", !.body = b,
                                        !.status = BadRequest, !.responses = 1]
                   ELSE [IdleReq EXCEPT !.pc = "insert", !.body = b]]
    /\ UNCHANGED <<turnos, schedules, nextId, outbox, res, avail, hist>>

CreateReceive(r, b) ==
    /\ reqs[r].pc = "idle"
    /\ reqs' = [reqs EXCEPT ![r] =
                   IF MissingFields(b)
                   THEN [IdleReq EXCEPT !.pc = "done", !.body = b,
                                        !.status = BadRequest, !.responses = 1]
                   ELSE [IdleReq EXCEPT !.pc = "insert", !.body = b]]
    /\ UNCHANGED <<turnos, schedules, nextId, outbox, res, avail, hist>>

\* the store executes the INSERT of request r
CreateInsert(r) ==
    LET result == InsertTurno(turnos, nextId, reqs[r].body)
    IN /\ reqs[r].pc = "insert"
       /\ result.code = "" => nextId <= MaxId
       /\ turnos' = result.table
       /\ nextId' = IF result.code = "" THEN nextId + 1 ELSE nextId
       /\ reqs' = [reqs EXCEPT ![r].pc = "resume", ![r].code = result.code,
                               ![r].rows = result.rows]
       /\ UNCHANGED <<schedules, outbox, res, avail, hist>>

\* pool.query rejects the INSERT of request r with an error other than
\* 23505: nothing is stored
CreateInsertFails(r) ==
    /\ reqs[r].pc = "insert"
    /\ reqs' = [reqs EXCEPT ![r].pc = "resume", ![r].code = "08006"]
    /\ UNCHANGED <<turnos, schedules, nextId, outbox, res, avail, hist>>

\* Mutant: the catch sends the notification too.
CreateResumeMailInCatch(r) ==
    /\ reqs[r].pc = "resume"
    /\ IF reqs[r].code = ""
       THEN /\ outbox' = outbox \cup {reqs[r].rows[1].id}
            /\ reqs' = [reqs EXCEPT ![r].pc = "done", ![r].status = Created,
                                    ![r].mails = @ + 1, ![r].responses = @ + 1]
       ELSE /\ reqs' = [reqs EXCEPT ![r].pc = "done",
                                    ![r].status = CatchStatus(reqs[r].code),
                                    ![r].mails = @ + 1, ![r].responses = @ + 1]
            /\ outbox' = outbox \cup {0}
    /\ UNCHANGED <<turnos, schedules, nextId, res, avail, hist>>

\* the handler resumes after the await: sendMail and 201, or the catch
CreateResume(r) ==
    /\ reqs[r].pc = "resume"
    /\ IF reqs[r].code = ""
       THEN /\ outbox' = outbox \cup {reqs[r].rows[1].id}
            /\ reqs' = [reqs EXCEPT ![r].pc = "done", ![r].status = Created,
                                    ![r].mails = @ + 1, ![r].responses = @ + 1]
       ELSE /\ reqs' = [reqs EXCEPT ![r].pc = "done",
                                    ![r].status = CatchStatus(reqs[r].code),
                                    ![r].responses = @ + 1]
            /\ UNCHANGED outbox
    /\ UNCHANGED <<turnos, schedules, nextId, res, avail, hist>>

NextRace ==
    \/ \E r \in Racers, b \in RaceBodies : CreateReceive(r, b)
    \/ \E r \in Racers : CreateInsert(r)
    \/ \E r \in Racers : CreateResume(r)
    \/ \E a \in outbox, error \in BOOLEAN : MailCallback(a, error)

\* Concurrent bookings on an empty table, the store answering every INSERT.
SpecRace == Init /\ [][NextRace]_vars

NextBooking ==
    \/ NextRace
    \/ \E r \in Racers : CreateInsertFails(r)

\* Concurrent bookings, the store answering every INSERT with a result or
\* with an error, and the event loop running every continuation: an INSERT
\* that was sent is eventually answered, a handler whose await has settled
\* eventually resumes.
SpecBooking ==
    /\ Init
    /\ [][NextBooking]_vars
    /\ \A r \in Racers : WF_vars(CreateInsert(r) \/ CreateInsertFails(r))
    /\ \A r \in Racers : WF_vars(CreateResume(r))

NextFaulty ==
    \/ Next
    \/ \E route \in SingleQueryRoutes : QueryFails(route)
    \/ \E r \in Readers : AvailFails(r)

\* The store may fail any statement.
SpecFaulty == Init /\ [][NextFaulty]_vars
----------------------------------------------------------------------------
\* Vocabulary of the properties

Range(seq) == {seq[i] : i \in 1..Len(seq)}

\* 2025-06-10 and 2025-06-17 are Tuesdays (0 = Sunday)
WeekdayOf(date) ==
    CASE date = <<2025, 6, 10>> -> 2
      [] date = <<2025, 6, 17>> -> 2

Active(date, time) == {t \in turnos : t.fecha = date /\ t.hora = time}

ScheduleFor(date) == {s \in schedules : s.day_of_week_num = WeekdayOf(date)}

\* the configured slots of the date, in order, without the booked times
ExpectedTimes(date) ==
    LET cfg == ScheduleFor(date)
        slots == IF cfg = {} THEN <<>> ELSE (CHOOSE s \in cfg : TRUE).available_times
        open(time) == Active(date, time) = {}
    IN SelectSeq(slots, open)

Incomplete(b) ==
    b.fecha = NoDate \/ b.hora = "" \/ b.servicio = "" \/ b.nombre = ""
        \/ b.telefono = ""

\* the racers whose request passed validation and targets (date, time)
Targeting(date, time) ==
    {r \in Racers : /\ ~Incomplete(reqs[r].body)
                    /\ reqs[r].body.fecha = date
                    /\ reqs[r].body.hora = time}

AllDone == \A r \in Racers : reqs[r].pc = "done"

----------------------------------------------------------------------------
\* C1: when every racing request has been answered, for each (date, time)
\* that some valid requests targeted, exactly one of them got 201, every
\* other one got 409, and the table holds exactly one row for the pair.
C1_ExactlyOneWinner ==
    AllDone =>
        \A date \in Dates, time \in Times :
            Targeting(date, time) # {} =>
                /\ Cardinality({r \in Targeting(date, time) :
                                    reqs[r].status = Created}) = 1
                /\ \A r \in Targeting(date, time) :
                       reqs[r].status \in {Created, Conflict}
                /\ Cardinality(Active(date, time)) = 1

\* three requests for one slot, all answered, the last one the winner
C1_Witness ==
    /\ AllDone
    /\ Cardinality(Targeting(<<2025, 6, 10>>, "09:00")) = NumRacers
    /\ reqs[NumRacers].status = Created

\* C2: the table never holds two appointments for the same (date, time).
C2_UniqueSlot ==
    \A t1 \in turnos, t2 \in turnos :
        (t1.fecha = t2.fecha /\ t1.hora = t2.hora) => t1 = t2

\* two appointments stored and a third booking just refused
C2_Witness ==
    /\ Cardinality(turnos) = 2
    /\ res.route = "POST /api/appointments"
    /\ res.status = Conflict

\* C3: a GET /api/available-times that no other operation ran beside
\* answers 200 with the configured slots of the date's weekday, in their
\* order, without exactly the times booked on that date.
C3_AvailableTimes ==
    [][\A r \in Readers :
          (AvailBooked(r) /\ ~avail[r].concurrent) =>
              /\ res'.status = Ok
              /\ res'.body.availableTimes = ExpectedTimes(avail[r].date)]_vars

\* schedule [09:00, 10:00], 09:00 booked on the date, the answer is [10:00]
C3_Witness ==
    /\ res.route = "GET /api/available-times"
    /\ res.status = Ok
    /\ res.body.availableTimes = <<"10:00">>
    /\ \E s \in schedules : s.day_of_week_num = 2
                            /\ s.available_times = <<"09:00", "10:00">>
    /\ Active(<<2025, 6, 10>>, "09:00") # {}
    /\ Active(<<2025, 6, 10>>, "10:00") = {}
    /\ Active(<<2025, 6, 17>>, "10:00") # {}

\* C4: cancelling the appointment a booking just created, nothing else in
\* between, gives getAvailableTimes of its date the same set of times as
\* before the booking.
C4_RoundTrip ==
    [][(hist.valid /\ DeleteAppointment(hist.id)) =>
           /\ res'.status = Ok
           /\ Range(AvailableTimes(turnos', schedules', hist.date))
                  = Range(hist.times)]_vars

\* the only appointment ever booked was cancelled and its time is offered again
C4_Witness ==
    /\ res.route = "DELETE /api/appointments/:id"
    /\ res.status = Ok
    /\ nextId = 2
    /\ turnos = {}
    /\ res.body.deletedAppointment.hora
           \in Range(AvailableTimes(turnos, schedules, res.body.deletedAppointment.fecha))

\* C5: a committed insert is answered 201 with the stored appointment while
\* its notification is still pending, and the notification's callback,
\* with or without an error, changes neither the table nor the response.
C5_MailNeverUndoes ==
    [][/\ (turnos' # turnos /\ \E b \in Bodies : PostAppointment(b)) =>
              /\ res'.status = Created
              /\ res'.body.appointment \in turnos'
              /\ res'.body.appointment.id \in outbox'
       /\ (\E a \in outbox, error \in BOOLEAN : MailCallback(a, error)) =>
              (turnos' = turnos /\ res' = res)]_vars

\* the booking was answered 201, its notification has called back, and the
\* appointment is stored
C5_Witness ==
    /\ res.route = "POST /api/appointments"
    /\ res.status = Created
    /\ res.body.appointment \in turnos
    /\ res.body.appointment.id \notin outbox

\* C6: a booking request without one of the required fields is answered
\* 400 and runs no statement and no notification.
C6_ValidationFirst ==
    [][\A b \in Bodies :
          (Incomplete(b) /\ PostAppointment(b)) =>
              /\ res'.status = BadRequest
              /\ UNCHANGED <<turnos, schedules, nextId, outbox, avail>>]_vars

\* a 400 answer with an appointment, a schedule and a notification in place
C6_Witness ==
    /\ res.route = "POST /api/appointments"
    /\ res.status = BadRequest
    /\ turnos # {}
    /\ schedules # {}
    /\ outbox # {}

\* C7: a complete booking request for a (date, time) that has an
\* appointment is answered 409, not 201, 400 or 500, and leaves the one
\* appointment of the pair and the notifications as they were.
C7_ConflictIsConflict ==
    [][\A b \in Bodies :
          (~Incomplete(b) /\ Active(b.fecha, b.hora) # {} /\ PostAppointment(b)) =>
              /\ res'.status = Conflict
              /\ res'.status \notin {Created, BadRequest, ServerError}
              /\ turnos' = turnos
              /\ Cardinality({t \in turnos' : t.fecha = b.fecha /\ t.hora = b.hora}) = 1
              /\ outbox' = outbox
              /\ nextId' = nextId]_vars

\* a 409 answer, the appointment of the first booking stored, no
\* notification pending
C7_Witness ==
    /\ res.route = "POST /api/appointments"
    /\ res.status = Conflict
    /\ Cardinality(turnos) = 1
    /\ outbox = {}

C9_NoScheduleIsEmpty ==
    [][\A r \in Readers :
          (AvailBooked(r) /\ ~avail[r].concurrent
              /\ ScheduleFor(avail[r].date) = {}) =>
              /\ res'.status = Ok
              /\ res'.body.availableTimes = <<>>]_vars

\* the empty answer, with an appointment on the date, no schedule for its
\* weekday and a schedule for another weekday
C9_Witness ==
    /\ res.route = "GET /api/available-times"
    /\ res.status = Ok
    /\ res.body.availableTimes = <<>>
    /\ ScheduleFor(<<2025, 6, 10>>) = {}
    /\ schedules # {}
    /\ \E t \in turnos : t.fecha = <<2025, 6, 10>>

\* C10: DELETE /api/appointments/:id answers 404 and changes nothing when
\* no appointment has the id; otherwise it answers 200 with that
\* appointment, removes it and no other, and its time is in
\* getAvailableTimes of its date if the schedule of the date lists it.
C10_Delete ==
    [][\A id \in IdInputs :
          DeleteAppointment(id) =>
              LET hit == {t \in turnos : t.id = id}
              IN IF hit = {}
                 THEN /\ res'.status = NotFound
                      /\ UNCHANGED <<turnos, schedules, nextId, outbox>>
                 ELSE \E t \in hit :
                      /\ hit = {t}
                      /\ res'.status = Ok
                      /\ res'.body.deletedAppointment = t
                      /\ turnos' = turnos \ {t}
                      /\ UNCHANGED <<schedules, nextId, outbox>>
                      /\ (\E s \in ScheduleFor(t.fecha) :
                              t.hora \in Range(s.available_times))
                            => t.hora \in Range(AvailableTimes(turnos', schedules',
                                                               t.fecha))]_vars

\* an appointment was deleted, another one is still stored, and the freed
\* time is offered again
C10_Witness ==
    /\ res.route = "DELETE /api/appointments/:id"
    /\ res.status = Ok
    /\ turnos # {}
    /\ res.body.deletedAppointment.hora
           \in Range(AvailableTimes(turnos, schedules, res.body.deletedAppointment.fecha))

\* the INSERT of request r committed: the store returned its row
Committed(r) == reqs[r].rows # <<>> /\ reqs[r].rows[1] \in turnos

\* C11: a request calls sendMail only when it resumes after its INSERT
\* committed, with the id of the row the INSERT returned, which is stored;
\* an answered request has called it once if it was answered 201 and not
\* at all if it was answered 400, 409 or 500; and a request whose INSERT
\* committed eventually calls it.
C11_NotifyOncePerBooking ==
    /\ [][\A r \in Racers :
             reqs'[r].mails # reqs[r].mails =>
                 /\ CreateResume(r)
                 /\ Committed(r)
                 /\ reqs[r].mails = 0 /\ reqs'[r].mails = 1
                 /\ reqs'[r].status = Created
                 /\ reqs[r].rows[1].id \notin outbox
                 /\ outbox' = outbox \cup {reqs[r].rows[1].id}]_vars
    /\ [][outbox' \ outbox # {} =>
              \E r \in Racers : reqs'[r].mails # reqs[r].mails]_vars
    /\ [](\A r \in Racers :
              reqs[r].pc = "done" =>
                  reqs[r].mails = IF reqs[r].status = Created THEN 1 ELSE 0)
    /\ \A r \in Racers : Committed(r) ~> (reqs[r].mails = 1)

\* requests answered 201, 409 and 500, one notification sent and called
\* back, none pending
C11_Witness ==
    /\ AllDone
    /\ \E r1, r2, r3 \in Racers :
           /\ reqs[r1].status = Created /\ reqs[r1].mails = 1
           /\ reqs[r2].status = Conflict /\ reqs[r2].mails = 0
           /\ reqs[r3].status = ServerError /\ reqs[r3].mails = 0
    /\ outbox = {}

\* C12: POST /api/schedules with a complete body answers 200 whether or not
\* the weekday had a schedule; afterwards GET /api/schedules/:dayOfWeekNum
\* of that weekday answers 200 with exactly the list just given, the table
\* holds exactly one schedule for the weekday, and the schedules of the
\* other weekdays are as before.
C12_Upsert ==
    [][res'.route = "POST /api/schedules" =>
          \A b \in FullSchedules :
              PostSchedule(b) =>
                  LET key == b.day_of_week_num
                      got == GetScheduleByDay(schedules', key)
                  IN /\ res'.status = Ok
                     /\ got.status = Ok
                     /\ got.body.schedule.available_times = b.available_times
                     /\ Cardinality({s \in schedules' : s.day_of_week_num = key}) = 1
                     /\ {s \in schedules' : s.day_of_week_num # key}
                            = {s \in schedules : s.day_of_week_num # key}]_vars

\* the schedule of Tuesday read back as [10:00, 09:00], one row per weekday,
\* Wednesday configured as well
C12_Witness ==
    /\ res.route = "GET /api/schedules/:dayOfWeekNum"
    /\ res.status = Ok
    /\ res.body.schedule.day_of_week_num = 2
    /\ res.body.schedule.available_times = <<"10:00", "09:00">>
    /\ Cardinality(schedules) = 2
    /\ \E s \in schedules : s.day_of_week_num = 3

NoRepeat(seq) == \A i, j \in 1..Len(seq) : seq[i] = seq[j] => i = j

\* C13: no stored schedule lists a time label twice, and neither
\* GET /api/schedules/:dayOfWeekNum nor GET /api/available-times answers
\* with a list that repeats a label.
C13_NoRepeatedLabel ==
    /\ \A s \in schedules : NoRepeat(s.available_times)
    /\ \A d \in DayNums :
           GetScheduleByDay(schedules, d).status = Ok =>
               NoRepeat(GetScheduleByDay(schedules, d).body.schedule.available_times)
    /\ \A date \in Dates : NoRepeat(AvailableTimes(turnos, schedules, date))

\* d1 is an earlier calendar date than d2
Earlier(d1, d2) ==
    \/ d1[1] < d2[1]
    \/ d1[1] = d2[1] /\ d1[2] < d2[2]
    \/ d1[1] = d2[1] /\ d1[2] = d2[2] /\ d1[3] < d2[3]

\* minutes since midnight of a time label
Minutes(time) ==
    CASE time = "09:00" -> 540
      [] time = "10:00" -> 600

C15_SchedulesLeaveAppointments ==
    [][(res'.route \in {"POST /api/schedules", "DELETE /api/schedules/:dayOfWeekNum"}
          /\ \/ \E b \in ScheduleBodies : PostSchedule(b)
             \/ \E d \in DayNums : DeleteSchedule(d)) =>
          /\ turnos' = turnos
          /\ nextId' = nextId
          /\ outbox' = outbox]_vars

\* the schedule that listed the time of a stored appointment was deleted
\* and the appointment is still stored
C15_Witness ==
    /\ res.route = "DELETE /api/schedules/:dayOfWeekNum"
    /\ res.status = Ok
    /\ \E t \in turnos :
           /\ res.body.deletedSchedule.day_of_week_num = WeekdayOf(t.fecha)
           /\ t.hora \in Range(res.body.deletedSchedule.available_times)
           /\ ScheduleFor(t.fecha) = {}

\* C16: a complete booking request for a (date, time) without appointment,
\* on a date whose weekday has no schedule, is answered 201 and stores the
\* appointment; the schedules are as before, none for that weekday, and
\* getAvailableTimes of the date is still the empty list.
C16_BookingWithoutSchedule ==
    [][turnos' # turnos =>
          \A b \in Bodies :
              (/\ ~Incomplete(b)
               /\ Active(b.fecha, b.hora) = {}
               /\ ScheduleFor(b.fecha) = {}
               /\ PostAppointment(b)) =>
                  /\ res'.status = Created
                  /\ res'.body.appointment \in turnos'
                  /\ res'.body.appointment.fecha = b.fecha
                  /\ res'.body.appointment.hora = b.hora
                  /\ turnos' = turnos \cup {res'.body.appointment}
                  /\ schedules' = schedules
                  /\ {s \in schedules' : s.day_of_week_num = WeekdayOf(b.fecha)} = {}
                  /\ AvailableTimes(turnos', schedules', b.fecha) = <<>>]_vars

\* a booking just answered 201 on a date whose weekday has no schedule,
\* another weekday has one, and the date offers no times
C16_Witness ==
    /\ res.route = "POST /api/appointments"
    /\ res.status = Created
    /\ res.body.appointment \in turnos
    /\ ScheduleFor(res.body.appointment.fecha) = {}
    /\ schedules # {}
    /\ AvailableTimes(turnos, schedules, res.body.appointment.fecha) = <<>>

\* C17: a booking request for a date whose weekday has a schedule that does
\* not list the requested time creates no appointment.
C17_BookingChecksSchedule ==
    [][turnos' # turnos =>
          \A b \in Bodies :
              (/\ ~Incomplete(b)
               /\ \E s \in ScheduleFor(b.fecha) : b.hora \notin Range(s.available_times)
               /\ PostAppointment(b)) =>
                  turnos' = turnos]_vars

\* C18: the list GET /api/available-times answers with is what
\* getAvailableTimes of the date is in one state of the store between the
\* arrival of the request and its response.
C18_ConsistentSnapshot ==
    [][\A r \in Readers :
          AvailBooked(r) =>
              /\ res'.status = Ok
              /\ res'.body.availableTimes \in avail[r].seen]_vars

\* C19: a step that changes the appointments changes those of one date
\* only, leaves the stored schedules as they are, and leaves
\* getAvailableTimes of every other date, those of the same weekday
\* included, as it was.
C19_OtherDatesUntouched ==
    [][turnos' # turnos =>
          LET changed == (turnos' \ turnos) \cup (turnos \ turnos')
          IN /\ schedules' = schedules
             /\ \E d \in Dates :
                    /\ \A t \in changed : t.fecha = d
                    /\ \A d2 \in Dates \ {d} :
                           /\ WeekdayOf(d2) = WeekdayOf(d)
                           /\ AvailableTimes(turnos', schedules', d2)
                                  = AvailableTimes(turnos, schedules, d2)]_vars

\* a booking just took a time the schedule lists: its date no longer
\* offers the time, the other date of the same weekday still does
C19_Witness ==
    /\ res.route = "POST /api/appointments"
    /\ res.status = Created
    /\ \E s \in ScheduleFor(res.body.appointment.fecha) :
           res.body.appointment.hora \in Range(s.available_times)
    /\ res.body.appointment.hora
           \notin Range(AvailableTimes(turnos, schedules, res.body.appointment.fecha))
    /\ \E d2 \in Dates \ {res.body.appointment.fecha} :
           res.body.appointment.hora \in Range(AvailableTimes(turnos, schedules, d2))

\* C20: a request has sent at most one response, and exactly one once its
\* handler has ended; that response is 201, 400, 409 or 500, and it is 201
\* exactly when the INSERT of the request committed; an answered request
\* sends nothing more; and every request that arrived is eventually
\* answered.
C20_OneOutcome ==
    /\ [](\A r \in Racers :
              /\ reqs[r].responses <= 1
              /\ (reqs[r].pc = "done") <=> (reqs[r].responses = 1)
              /\ (reqs[r].pc = "done") =>
                     /\ reqs[r].status \in {Created, BadRequest, Conflict, ServerError}
                     /\ (reqs[r].status = Created) <=> Committed(r))
    /\ [][\A r \in Racers :
             reqs[r].pc = "done" => reqs'[r] = reqs[r]]_vars
    /\ \A r \in Racers : (reqs[r].pc # "idle") ~> (reqs[r].pc = "done")

\* requests answered 201, 400 and 500, each with one response, the row of
\* the first one stored
C20_Witness ==
    /\ AllDone
    /\ \E r1, r2, r3 \in Racers :
           /\ reqs[r1].status = Created /\ Committed(r1)
           /\ reqs[r2].status = BadRequest /\ reqs[r2].rows = <<>>
           /\ reqs[r3].status = ServerError /\ reqs[r3].rows = <<>>
    /\ \A r \in Racers : reqs[r].responses = 1
    /\ Cardinality(turnos) = 1

====
